---- MODULE Spec2Model ----
(***************************************************************************)
(* The Secret Santa bot: the participants and pairings tables of           *)
(* DatabaseManager (database.py) and the command handlers of               *)
(* SecretSantaCog (cogs/secret_santa.py).                                  *)
(*                                                                         *)
(* The handlers are coroutines of one asyncio event loop: the code between *)
(* two awaits runs without interleaving, so every action below is the part *)
(* of a handler between two awaits.  The database calls are synchronous    *)
(* (psycopg2), so assign_partners runs to its return or its exception      *)
(* before any other handler step; its loop is modelled step by step and    *)
(* every other action is disabled while it runs (asg.pc = "loop").         *)
(***************************************************************************)
EXTENDS Naturals, Integers, Sequences, FiniteSets, TLC

\* Number of chat users of the full model.
NumUsers == 3
\* Largest participant list handed to assign_partners on its own (SpecAssign).
MaxN == 4
\* Number of distinct wishlist / address texts.
NumTexts == 1
\* Start handlers in flight at the same time.
MaxStarts == 2
\* Events created (successful create commands) in one run.
MaxEvents == 1
\* Last reading of the clock, in seconds (SpecLimiter).
MaxTime == 7
\* Largest number of commands per window the limiter is configured with when
\* checked on its own (SpecLimiter).
MaxCommands == 2
\* Greatest length of a relayed message text (SpecRelay).
MaxMsgLen == 3
\* Greatest number of full pages of a listing, and how far its length lies
\* from a whole number of pages (SpecChunk).
MaxPages == 2
MaxSlack == 8

\* Rate limiting configuration of the module.
RATE_LIMIT_COMMANDS == 5
RATE_LIMIT_WINDOW == 30

Users == 1..NumUsers
\* Users for whom ctx.author.guild_permissions.administrator holds.
Elevated == {NumUsers}
\* SQL NULL / Python None.
NULL == 0
\* The texts users give as wishlist and address: 1..NumTexts have the greatest
\* length the commands accept, OverLong is one character longer.
Texts == 1..NumTexts
OverLong == NumTexts + 1
\* if len(wishlist) > 1000 / if len(address) > 1000
MaxTextLen == 1000
Length(text) ==
    IF text = NULL THEN 0 ELSE IF text \in Texts THEN MaxTextLen ELSE MaxTextLen + 1

VARIABLES
    participants,  \* table participants: user_id -> [wishlist, address, is_creator]
    pairings,      \* table pairings: rows [giver, receiver], in insertion order
    txAborted,     \* the connection's transaction is aborted (a statement failed,
                   \* no rollback since): every later statement raises
    asg,           \* the running call of assign_partners
    st,            \* per user: their start handler (locals and position)
    accepted,      \* history: a confirmation was accepted and no cancel since
    events,        \* history: the number of events created so far
    out,           \* the outcome of the last handler step
    now,           \* time.time(), in whole seconds
    history,       \* user_command_history: per user the recorded timestamps
    rl             \* rate_limit_enabled, rate_limit_commands, rate_limit_window

vars == <<participants, pairings, txAborted, asg, st, accepted, events, out,
          now, history, rl>>

\* The state of the rate limiter.
rvars == <<now, history, rl>>

\* SecretSantaCog.__init__: no history, the limiter on with the module's values.
RateInit ==
    /\ now = 0
    /\ history = [u \in Users |-> <<>>]
    /\ rl = [enabled |-> TRUE, commands |-> RATE_LIMIT_COMMANDS,
             window |-> RATE_LIMIT_WINDOW]

----------------------------------------------------------------------------
\* Helpers on sequences and tables.

Range(s) == {s[k] : k \in 1..Len(s)}

RECURSIVE Perms(_)
\* All orderings of a finite set, as sequences.
Perms(S) ==
    IF S = {} THEN {<<>>}
    ELSE UNION {{<<x>> \o p : p \in Perms(S \ {x})} : x \in S}

\* list.remove(x): the list without the first element equal to x.
RemoveFirst(s, x) ==
    LET k == CHOOSE j \in 1..Len(s) :
                 s[j] = x /\ \A m \in 1..(j - 1) : s[m] # x
    IN  SubSeq(s, 1, k - 1) \o SubSeq(s, k + 1, Len(s))

Present == DOMAIN participants

NewRow(creator) == [wishlist |-> NULL, address |-> NULL, is_creator |-> creator]

NoParticipants == [u \in {} |-> NewRow(FALSE)]

IdleAsg ==
    [pc |-> "idle", who |-> 0, plist |-> <<>>, receivers |-> <<>>, i |-> 0,
     result |-> <<>>, saved |-> <<>>, restarted |-> FALSE]

NoHandler ==
    [pc |-> "none", plist |-> <<>>, pairings |-> <<>>, ni |-> 0]

\* report: the rows of check_missing_info whose user a refused start has told
\* what they are missing.  sent, failed: the counts a handler reports at its end.
Outcome(cmd, u, res) ==
    [cmd |-> cmd, user |-> u, res |-> res, report |-> {}, sent |-> 0, failed |-> 0]

----------------------------------------------------------------------------
\* DatabaseManager.assign_partners

\* DELETE FROM pairings
ClearPairingsKeep(rows) == rows
ClearPairings(rows) == <<>>

\* valid_receivers = [r for r in receivers if r['user_id'] != giver['user_id']]
ValidReceiversAny(giver, receivers) == {k \in 1..Len(receivers) : TRUE}
ValidReceiversAbove(giver, receivers) ==
    {k \in 1..Len(receivers) : receivers[k].user_id > giver.user_id}
ValidReceivers(giver, receivers) ==
    {k \in 1..Len(receivers) : receivers[k].user_id # giver.user_id}

\* SELECT address FROM participants WHERE user_id = ...; "No address set" (-1)
\* when there is no such row.
NoAddressSet == -1
ReceiverAddress(r) ==
    IF r \in Present THEN participants[r].address ELSE NoAddressSet

\* The foreign keys of pairings: giver_id and receiver_id are rows of participants.
ForeignKeysOk(g, r) == g \in Present /\ r \in Present

\* The entry of assign_partners(plist), called by handler u:
\* the statements up to the loop.  A statement in an aborted transaction raises.
AssignEnter(u, plist, cmd) ==
    IF Len(plist) < 2
    THEN \* raise ValueError("Need at least 2 participants to create pairings")
         /\ st' = [st EXCEPT ![u] = NoHandler]
         /\ out' = Outcome(cmd, u, "value_error")
         /\ UNCHANGED <<participants, pairings, txAborted, asg, accepted, events>>
    ELSE IF txAborted
    THEN /\ st' = [st EXCEPT ![u] = NoHandler]
         /\ out' = Outcome(cmd, u, "db_error")
         /\ UNCHANGED <<participants, pairings, txAborted, asg, accepted, events>>
    ELSE /\ pairings' = ClearPairings(pairings)
         /\ asg' = [pc |-> "loop", who |-> u, plist |-> plist, receivers |-> plist,
                    i |-> 1, result |-> <<>>, saved |-> pairings,
                    restarted |-> FALSE]
         /\ st' = [st EXCEPT ![u] = [NoHandler EXCEPT !.pc = "assign", !.plist = plist]]
         /\ out' = Outcome(cmd, u, "assigning")
         /\ UNCHANGED <<participants, txAborted, accepted, events>>

\* receivers = participants.copy() of the recursive call: the full list again,
\* whatever was left of the caller's receivers.
RestartReceiversLeft(plist, receivers) == receivers
RestartReceivers(plist, receivers) == plist

\* One iteration of the loop for the giver plist[i] with a non-empty
\* valid_receivers: random.choice picks the receiver with user id r.
AssignPick(r) ==
    /\ asg.pc = "loop"
    /\ asg.i <= Len(asg.plist)
    /\ LET giver == asg.plist[asg.i]
           valid == ValidReceivers(giver, asg.receivers)
       IN  /\ valid # {}
           /\ \E k \in valid :
                /\ asg.receivers[k].user_id = r
                /\ LET receiver == asg.receivers[k]
                   IN  IF ForeignKeysOk(giver.user_id, receiver.user_id)
                       THEN /\ pairings' = Append(pairings,
                                   [giver |-> giver.user_id, receiver |-> receiver.user_id])
                            /\ asg' = [asg EXCEPT
                                 !.receivers = RemoveFirst(asg.receivers, receiver),
                                 !.i = asg.i + 1,
                                 !.result = Append(asg.result,
                                     [giver |-> giver.user_id,
                                      receiver |-> receiver.user_id,
                                      receiver_wishlist |-> receiver.wishlist,
                                      receiver_address |-> ReceiverAddress(receiver.user_id)])]
                            /\ out' = Outcome("assign", asg.who, "picked")
                            /\ UNCHANGED <<participants, txAborted, st, accepted, events>>
                       ELSE \* the INSERT violates a foreign key: the exception leaves
                            \* assign_partners and the handler; the transaction, with
                            \* its DELETE and INSERTs, is aborted and never committed
                            /\ pairings' = asg.saved
                            /\ txAborted' = TRUE
                            /\ asg' = IdleAsg
                            /\ st' = [st EXCEPT ![asg.who] = NoHandler]
                            /\ out' = Outcome("assign", asg.who, "db_error")
                            /\ UNCHANGED <<participants, accepted, events>>

\* valid_receivers is empty: return self.assign_partners(participants), which
\* deletes the rows inserted so far and starts over with the full receiver list.
AssignRestart ==
    /\ asg.pc = "loop"
    /\ asg.i <= Len(asg.plist)
    /\ ValidReceivers(asg.plist[asg.i], asg.receivers) = {}
    /\ pairings' = ClearPairings(pairings)
    /\ asg' = [asg EXCEPT !.receivers = RestartReceivers(asg.plist, asg.receivers),
                          !.i = 1, !.result = <<>>,
                          !.restarted = TRUE]
    /\ out' = Outcome("assign", asg.who, "restart")
    /\ UNCHANGED <<participants, txAborted, st, accepted, events>>

\* The loop is over: self.conn.commit(); return pairings.  The caller (the start
\* handler) keeps the list and goes on to _show_potential_matches.
AssignReturn ==
    /\ asg.pc = "loop"
    /\ asg.i > Len(asg.plist)
    /\ st' = [st EXCEPT ![asg.who] =
                [@ EXCEPT !.pc = "present", !.pairings = asg.result]]
    /\ asg' = IdleAsg
    /\ out' = Outcome("assign", asg.who,
                      IF asg.restarted THEN "returned_after_restart" ELSE "returned")
    /\ UNCHANGED <<participants, pairings, txAborted, accepted, events>>

\* Every participant list of 2..MaxN distinct ids out of 1..MaxN, each id a row
\* of participants with wishlist and address set (what start hands over).
AssignInputs ==
    UNION {Perms(S) : S \in {T \in SUBSET (1..MaxN) : Cardinality(T) >= 2}}

InitAssign ==
    \E ids \in AssignInputs :
      /\ participants = [u \in Range(ids) |->
                            [wishlist |-> 1, address |-> 1, is_creator |-> u = ids[1]]]
      /\ pairings = <<>>
      /\ txAborted = FALSE
      /\ LET plist == [k \in 1..Len(ids) |-> [user_id |-> ids[k], wishlist |-> 1]]
         IN  /\ asg = [pc |-> "loop", who |-> 1, plist |-> plist, receivers |-> plist,
                       i |-> 1, result |-> <<>>, saved |-> <<>>, restarted |-> FALSE]
             /\ st = [u \in Users |->
                        IF u = 1 THEN [NoHandler EXCEPT !.pc = "assign", !.plist = plist]
                        ELSE NoHandler]
      /\ accepted = FALSE
      /\ events = 1
      /\ out = Outcome("start", 1, "assigning")
      /\ RateInit

NextAssign ==
    \/ \E r \in 1..MaxN : AssignPick(r) /\ UNCHANGED rvars
    \/ AssignRestart /\ UNCHANGED rvars
    \/ AssignReturn /\ UNCHANGED rvars

\* assign_partners alone, on every input list.
SpecAssign == InitAssign /\ [][NextAssign]_vars

\* The same with the scheduling the claim of termination assumes: the loop goes
\* on, and a receiver that random.choice can pick again and again is picked.
FairAssign ==
    /\ SpecAssign
    /\ WF_vars(NextAssign)
    /\ \A r \in 1..MaxN : SF_vars(AssignPick(r) /\ UNCHANGED rvars)

----------------------------------------------------------------------------
\* DatabaseManager: the queries and updates the handlers use.  In an aborted
\* transaction every statement raises; is_event_active and get_all_participants
\* catch the exception and answer False and [].

is_event_active == ~txAborted /\ Present # {}

\* INSERT ... ON CONFLICT (user_id) DO UPDATE SET name, is_creator: a new row has
\* no wishlist and no address, an existing row keeps them and takes the flag.
add_participant_replace(tbl, u, creator) ==
    [x \in DOMAIN tbl \cup {u} |-> IF x = u THEN NewRow(creator) ELSE tbl[x]]
add_participant(tbl, u, creator) ==
    IF u \in DOMAIN tbl THEN [tbl EXCEPT ![u].is_creator = creator]
    ELSE [x \in DOMAIN tbl \cup {u} |-> IF x = u THEN NewRow(creator) ELSE tbl[x]]

\* UPDATE participants SET wishlist = ... WHERE user_id = u
db_set_wishlist(tbl, u, text) ==
    IF u \in DOMAIN tbl THEN [tbl EXCEPT ![u].wishlist = text] ELSE tbl

\* UPDATE participants SET address = ... WHERE user_id = u
\* (db_set_address_upsert: the statement if it inserted a missing row.)
db_set_address_upsert(tbl, u, text) ==
    [x \in DOMAIN tbl \cup {u} |->
        IF x = u THEN [wishlist |-> IF u \in DOMAIN tbl THEN tbl[u].wishlist ELSE NULL,
                       address |-> text,
                       is_creator |-> IF u \in DOMAIN tbl THEN tbl[u].is_creator ELSE FALSE]
        ELSE tbl[x]]
db_set_address(tbl, u, text) ==
    IF u \in DOMAIN tbl THEN [tbl EXCEPT ![u].address = text] ELSE tbl

RECURSIVE Sorted(_)
\* The ids of S in increasing order.
Sorted(S) ==
    IF S = {} THEN <<>>
    ELSE LET m == CHOOSE x \in S : \A y \in S : x <= y
         IN  <<m>> \o Sorted(S \ {m})

\* SELECT user_id, name, wishlist FROM participants: the rows in the order of
\* the table, which is kept by user id here (SpecAssign runs assign_partners on
\* every order of the list).
\* (One row: user_id and wishlist; the name column follows the user id.)
Rows(tbl) ==
    LET p == Sorted(DOMAIN tbl)
    IN  [k \in 1..Len(p) |-> [user_id |-> p[k], wishlist |-> tbl[p[k]].wishlist]]
get_all_participants == Rows(participants)

\* SELECT ... WHERE wishlist IS NULL OR address IS NULL
check_missing_info ==
    {[user_id |-> u,
      missing_wishlist |-> participants[u].wishlist = NULL,
      missing_address |-> participants[u].address = NULL] :
        u \in {x \in Present : participants[x].wishlist = NULL
                               \/ participants[x].address = NULL}}

\* The rows of missing_info whose user has been sent the DM with their missing
\* items when the loop over missing_info has done its first k rounds.
Told(S, k) ==
    LET order == Sorted(S)
    IN  {m \in check_missing_info : \E j \in 1..k : order[j] = m.user_id}
MissingInfoTold(k) == Told({m.user_id : m \in check_missing_info}, k)

\* SELECT is_creator FROM participants WHERE user_id = u
is_creator_or_admin_never(u) == FALSE
is_creator_or_admin(u) == u \in Present /\ participants[u].is_creator

----------------------------------------------------------------------------
\* SecretSantaCog: the command handlers.

\* A start handler is at a step that is not interleaved with other handlers:
\* inside the synchronous assign_partners, or at one of its DMs around the
\* confirmation wait and in the notification loop, where it touches neither
\* table, so that a command handled during such an await has the effect it has
\* when handled while the handler waits for the answer, or after it has ended.
Exclusive(u) == st[u].pc \in {"assign", "present", "regen", "notify"}
Busy(u) == asg.pc # "idle" \/ \E v \in Users \ {u} : Exclusive(v)

\* isinstance(ctx.author, discord.Member) and ...guild_permissions.administrator:
\* true of an administrator who sends the command in a guild channel, false of
\* everybody in a DM.  The values is_admin can take for a command of u:
AdminFacts(u) == IF u \in Elevated THEN BOOLEAN ELSE {FALSE}

\* if not (is_admin or is_creator): refuse
NotAllowedCreatorOnly(is_admin, is_creator) == ~is_creator
NotAllowed(is_admin, is_creator) == ~(is_admin \/ is_creator)

\* The handler ends with the outcome res and changes nothing else.
Reply(cmd, u, res) ==
    /\ out' = Outcome(cmd, u, res)
    /\ UNCHANGED <<participants, pairings, txAborted, asg, st, accepted, events>>

\* The start handlers between their call and their end.
InFlight == {u \in Users : st[u].pc # "none"}

\* A start handler is in its confirmation loop: from the return of
\* assign_partners to the accept.
Confirming == \E u \in Users : st[u].pc \in {"assign", "present", "wait", "regen"}

create_secret_santa(u) ==
    /\ ~Busy(0)
    /\ IF is_event_active THEN Reply("create", u, "already_active")
       ELSE IF txAborted THEN Reply("create", u, "db_error")
       ELSE /\ events < MaxEvents
            /\ participants' = add_participant(participants, u, TRUE)
            /\ events' = events + 1
            /\ out' = Outcome("create", u, "created")
            /\ UNCHANGED <<pairings, txAborted, asg, st, accepted>>

join_secret_santa(u) ==
    /\ ~Busy(0)
    /\ IF ~is_event_active THEN Reply("join", u, "no_event")
       ELSE /\ participants' = add_participant(participants, u, FALSE)
            /\ out' = Outcome("join", u, "joined")
            /\ UNCHANGED <<pairings, txAborted, asg, st, accepted, events>>

set_wishlist(u, text) ==
    /\ ~Busy(0)
    /\ IF Length(text) > MaxTextLen THEN Reply("setwishlist", u, "too_long")
       ELSE IF txAborted THEN Reply("setwishlist", u, "db_error")
       ELSE /\ participants' = db_set_wishlist(participants, u, text)
            /\ out' = Outcome("setwishlist", u, "set")
            /\ UNCHANGED <<pairings, txAborted, asg, st, accepted, events>>

set_address(u, text) ==
    /\ ~Busy(0)
    /\ IF Length(text) > MaxTextLen THEN Reply("setaddress", u, "too_long")
       ELSE IF txAborted THEN Reply("setaddress", u, "db_error")
       ELSE /\ participants' = db_set_address(participants, u, text)
            /\ out' = Outcome("setaddress", u, "set")
            /\ UNCHANGED <<pairings, txAborted, asg, st, accepted, events>>

\* if len(participants) < 2: "At least two participants are required."
TooFewNever(plist) == FALSE
TooFew(plist) == Len(plist) < 2

\* start up to its first await after the checks: the refusals, or the first call
\* of assign_partners on the participants just read.  Each user has at most one
\* start handler in flight, and at most MaxStarts are in flight together.
start_secret_santa(u, admin) ==
    /\ ~Busy(0)
    /\ st[u].pc = "none"
    /\ Cardinality(InFlight) < MaxStarts
    /\ IF txAborted THEN Reply("start", u, "db_error")
       ELSE IF NotAllowed(admin, is_creator_or_admin(u))
       THEN Reply("start", u, "denied")
       ELSE IF TooFew(get_all_participants) THEN Reply("start", u, "too_few")
       ELSE IF check_missing_info # {}
       THEN \* "Cannot start" to the channel, then a DM to each user of missing_info
            \* in turn: all of them are told (k is their number), or the DM to
            \* the k+1-th is refused and its exception ends the handler
            \E k \in 0..Cardinality(check_missing_info) :
              /\ out' = [Outcome("start", u,
                                 IF k = Cardinality(check_missing_info)
                                 THEN "missing_info" ELSE "dm_refused")
                           EXCEPT !.report = MissingInfoTold(k)]
              /\ UNCHANGED <<participants, pairings, txAborted, asg, st, accepted, events>>
       ELSE AssignEnter(u, get_all_participants, "start")

\* _show_potential_matches up to wait_for: the DM with the matches is delivered
\* (sent) and the handler waits, or it is refused and the call returns False.
ShowMatches(u, sent) ==
    /\ ~Busy(u)
    /\ st[u].pc = "present"
    /\ st' = [st EXCEPT ![u].pc = IF sent THEN "wait" ELSE "regen"]
    /\ out' = Outcome("show", u, IF sent THEN "waiting" ELSE "dm_refused")
    /\ UNCHANGED <<participants, pairings, txAborted, asg, accepted, events>>

\* wait_for returns a DM of the handler's author that says yes or no.
Respond(u, yes) ==
    /\ ~Busy(u)
    /\ st[u].pc = "wait"
    /\ st' = [st EXCEPT ![u].pc = IF yes THEN "notify" ELSE "regen",
                        ![u].ni = IF yes THEN 1 ELSE 0]
    /\ accepted' = (accepted \/ yes)
    /\ out' = Outcome("respond", u, IF yes THEN "yes" ELSE "no")
    /\ UNCHANGED <<participants, pairings, txAborted, asg, events>>

\* wait_for times out after 300 s: the author is told to run start again and
\* _show_potential_matches returns False (a refused DM ends the handler).
Timeout(u, sent) ==
    /\ ~Busy(u)
    /\ st[u].pc = "wait"
    /\ st' = [st EXCEPT ![u] = IF sent THEN [@ EXCEPT !.pc = "regen"] ELSE NoHandler]
    /\ out' = Outcome("timeout", u, IF sent THEN "timed_out" ELSE "dm_refused")
    /\ UNCHANGED <<participants, pairings, txAborted, asg, accepted, events>>

\* matches_approved is False: "Generating new matches..." is sent (a refused DM
\* ends the handler) and the loop calls assign_partners again, on the list the
\* handler read when it began.
Regenerate(u, sent) ==
    /\ ~Busy(u)
    /\ st[u].pc = "regen"
    /\ IF sent THEN AssignEnter(u, st[u].plist, "regen")
       ELSE /\ st' = [st EXCEPT ![u] = NoHandler]
            /\ out' = Outcome("regen", u, "dm_refused")
            /\ UNCHANGED <<participants, pairings, txAborted, asg, accepted, events>>

\* One round of the notification loop: the pairing st[u].pairings[ni] of the
\* list assign_partners returned (receiver, receiver_wishlist, receiver_address)
\* is sent to its giver, or the DM is refused, which the loop reports and passes
\* over; after the last round the handler says that the event has begun and
\* ends.
NotifyNext(u, sent) ==
    /\ ~Busy(u)
    /\ st[u].pc = "notify"
    /\ IF st[u].ni <= Len(st[u].pairings)
       THEN /\ st' = [st EXCEPT ![u].ni = @ + 1]
            /\ out' = Outcome("notify", u, IF sent THEN "sent" ELSE "dm_refused")
       ELSE /\ st' = [st EXCEPT ![u] = NoHandler]
            /\ out' = Outcome("notify", u, "begun")
    /\ UNCHANGED <<participants, pairings, txAborted, asg, accepted, events>>

\* DELETE FROM pairings; DELETE FROM participants
db_cancel_secret_santa ==
    /\ pairings' = ClearPairings(pairings)
    /\ participants' = NoParticipants

cancel_secret_santa(u, admin) ==
    /\ ~Busy(0)
    /\ IF ~is_event_active THEN Reply("cancel", u, "no_event")
       ELSE IF NotAllowed(admin, is_creator_or_admin(u))
       THEN Reply("cancel", u, "denied")
       ELSE /\ db_cancel_secret_santa
            /\ accepted' = FALSE
            /\ out' = Outcome("cancel", u, "cancelled")
            /\ UNCHANGED <<txAborted, asg, st, events>>

\* remove of target, given by mention or numeric id (both "id": the two branches
\* only differ in the name they show) or by name:
\* DatabaseManager has neither get_participant_by_name nor
\* remove_participant, so looking the target up by name and removing a target
\* that is not the creator both end in an AttributeError.
remove_participant(u, admin, target, how) ==
    /\ ~Busy(0)
    /\ IF txAborted THEN Reply("remove", u, "db_error")
       ELSE IF NotAllowed(admin, is_creator_or_admin(u))
       THEN Reply("remove", u, "denied")
       ELSE IF ~is_event_active THEN Reply("remove", u, "no_event")
       ELSE IF how = "name" THEN Reply("remove", u, "attribute_error")
       ELSE IF is_creator_or_admin(target) THEN Reply("remove", u, "is_creator")
       ELSE Reply("remove", u, "attribute_error")

\* remind: a DM to each user of missing_info in turn whom bot.get_user knows
\* (known; the others are passed over without a word): all of them are
\* reminded and their number is reported, or the DM to the k+1-th is refused
\* and its exception ends the handler.
remind_missing_info(u, admin) ==
    /\ ~Busy(0)
    /\ IF txAborted THEN Reply("remind", u, "db_error")
       ELSE IF NotAllowed(admin, is_creator_or_admin(u))
       THEN Reply("remind", u, "denied")
       ELSE IF check_missing_info = {} THEN Reply("remind", u, "all_complete")
       ELSE \E known \in SUBSET {m.user_id : m \in check_missing_info} :
            \E k \in 0..Cardinality(known) :
              /\ out' = [Outcome("remind", u,
                                 IF k = Cardinality(known)
                                 THEN "reminded" ELSE "dm_refused")
                           EXCEPT !.report = Told(known, k),
                                  !.sent = IF k = Cardinality(known) THEN k ELSE 0]
              /\ UNCHANGED <<participants, pairings, txAborted, asg, st, accepted, events>>

\* broadcast of a message (long: of more than 1900 characters): a DM to every
\* participant bot.get_user knows (the others are passed over without a word);
\* the DM reaches the participants of ok (report) and is refused by those of
\* refused, who are counted and passed over.
broadcast_message(u, admin, long) ==
    /\ ~Busy(0)
    /\ IF txAborted THEN Reply("broadcast", u, "db_error")
       ELSE IF NotAllowed(admin, is_creator_or_admin(u))
       THEN Reply("broadcast", u, "denied")
       ELSE IF long THEN Reply("broadcast", u, "too_long")
       ELSE IF Len(get_all_participants) = 0
       THEN Reply("broadcast", u, "no_participants")
       ELSE \E ok \in SUBSET Present : \E refused \in SUBSET (Present \ ok) :
              /\ out' = [Outcome("broadcast", u, "broadcast")
                           EXCEPT !.report = {[user_id |-> x] : x \in ok},
                                  !.sent = Cardinality(ok),
                                  !.failed = Cardinality(refused)]
              /\ UNCHANGED <<participants, pairings, txAborted, asg, st, accepted, events>>

\* The values given to ratelimit commands and ratelimit window (0 also stands
\* for no value given).
RateValues(action) ==
    IF action = "window" THEN {0, 4, 5} ELSE {0, 1, MaxCommands}

\* if value is None or value < minimum: the value is refused
\* (BadValueBelow: the test if it let the value just under the minimum pass.)
BadValueBelow(value, minimum) == value < minimum - 1
BadValue(value, minimum) == value < minimum

\* ratelimit <action> [value]
set_rate_limit(u, admin, action, value) ==
    /\ ~Busy(0)
    /\ UNCHANGED <<participants, pairings, txAborted, asg, st, accepted, events>>
    /\ IF txAborted
       THEN out' = Outcome("ratelimit", u, "db_error") /\ rl' = rl
       ELSE IF NotAllowed(admin, is_creator_or_admin(u))
       THEN out' = Outcome("ratelimit", u, "denied") /\ rl' = rl
       ELSE IF action = "on"
       THEN out' = Outcome("ratelimit", u, "on") /\ rl' = [rl EXCEPT !.enabled = TRUE]
       ELSE IF action = "off"
       THEN out' = Outcome("ratelimit", u, "off") /\ rl' = [rl EXCEPT !.enabled = FALSE]
       ELSE IF action = "commands"
       THEN IF BadValue(value, 1)
            THEN out' = Outcome("ratelimit", u, "bad_value") /\ rl' = rl
            ELSE /\ out' = Outcome("ratelimit", u, "commands_set")
                 /\ rl' = [rl EXCEPT !.commands = value]
       ELSE IF action = "window"
       THEN IF BadValue(value, 5)
            THEN out' = Outcome("ratelimit", u, "bad_value") /\ rl' = rl
            ELSE /\ out' = Outcome("ratelimit", u, "window_set")
                 /\ rl' = [rl EXCEPT !.window = value]
       ELSE IF action = "status"
       THEN out' = Outcome("ratelimit", u, "status") /\ rl' = rl
       ELSE out' = Outcome("ratelimit", u, "invalid") /\ rl' = rl

\* SELECT giver_id FROM pairings WHERE receiver_id = u; fetchone()
get_gifter_any(u) ==
    IF pairings = <<>> THEN NULL ELSE pairings[1].giver
get_gifter_for_user(u) ==
    LET ks == {k \in 1..Len(pairings) : pairings[k].receiver = u}
    IN  IF ks = {} THEN NULL
        ELSE pairings[CHOOSE k \in ks : \A j \in ks : k <= j].giver

\* SELECT receiver_id FROM pairings WHERE giver_id = u; fetchone()
get_giftee_any(u) ==
    IF pairings = <<>> THEN NULL ELSE pairings[1].receiver
get_giftee_for_user(u) ==
    LET ks == {k \in 1..Len(pairings) : pairings[k].giver = u}
    IN  IF ks = {} THEN NULL
        ELSE pairings[CHOOSE k \in ks : \A j \in ks : k <= j].receiver

\* The command as the sender typed it.
MessageCmd(dir) ==
    IF dir \in {"gifter", "giftee"} THEN "message " \o dir ELSE "message"

\* message <gifter|giftee|...> <text> (long: of more than 1000 characters).
\* What happens to the DM for the counterpart is one of: bot.get_user does not
\* know them (the handler ends without a word: "silent"), the DM is refused
\* (_send_dm_with_log returns False: "refused") or delivered ("sent").  report
\* holds who received the message.
send_anonymous_message(u, dir, long) ==
    /\ ~Busy(0)
    /\ IF ~is_event_active THEN Reply(MessageCmd(dir), u, "no_event")
       ELSE IF long THEN Reply(MessageCmd(dir), u, "too_long")
       ELSE IF dir \notin {"gifter", "giftee"} THEN Reply(MessageCmd(dir), u, "invalid")
       ELSE LET to == IF dir = "gifter" THEN get_gifter_for_user(u)
                      ELSE get_giftee_for_user(u)
            IN  IF to = NULL
                THEN Reply(MessageCmd(dir), u,
                           IF dir = "gifter" THEN "no_gifter" ELSE "no_giftee")
                ELSE \/ Reply(MessageCmd(dir), u, "silent")
                     \/ Reply(MessageCmd(dir), u, "refused")
                     \/ /\ out' = [Outcome(MessageCmd(dir), u, "sent")
                                     EXCEPT !.report = {[user_id |-> to]}]
                        /\ UNCHANGED <<participants, pairings, txAborted, asg, st,
                                       accepted, events>>

Init ==
    /\ participants = NoParticipants
    /\ pairings = <<>>
    /\ txAborted = FALSE
    /\ asg = IdleAsg
    /\ st = [u \in Users |-> NoHandler]
    /\ accepted = FALSE
    /\ events = 0
    /\ out = Outcome("init", 0, "ready")
    /\ RateInit

\* The commands the rate limiter admits, and the steps of the handlers they
\* start.  The limiter reads and writes neither table and a command it denies
\* runs no handler (SpecRate), so its state is left aside here.
Next ==
    \/ \E u \in Users : create_secret_santa(u) /\ UNCHANGED rvars
    \/ \E u \in Users : join_secret_santa(u) /\ UNCHANGED rvars
    \/ \E u \in Users, text \in Texts \cup {OverLong} :
          set_wishlist(u, text) /\ UNCHANGED rvars
    \/ \E u \in Users, text \in Texts \cup {OverLong} :
          set_address(u, text) /\ UNCHANGED rvars
    \/ \E u \in Users : \E admin \in AdminFacts(u) :
          start_secret_santa(u, admin) /\ UNCHANGED rvars
    \/ \E u \in Users, sent \in BOOLEAN : ShowMatches(u, sent) /\ UNCHANGED rvars
    \/ \E u \in Users, yes \in BOOLEAN : Respond(u, yes) /\ UNCHANGED rvars
    \/ \E u \in Users, sent \in BOOLEAN : Timeout(u, sent) /\ UNCHANGED rvars
    \/ \E u \in Users, sent \in BOOLEAN : Regenerate(u, sent) /\ UNCHANGED rvars
    \/ \E u \in Users, sent \in BOOLEAN : NotifyNext(u, sent) /\ UNCHANGED rvars
    \/ \E u \in Users : \E admin \in AdminFacts(u) :
          cancel_secret_santa(u, admin) /\ UNCHANGED rvars
    \/ \E u \in Users : \E admin \in AdminFacts(u), target \in Users,
          how \in {"id", "name"} :
            remove_participant(u, admin, target, how) /\ UNCHANGED rvars
    \/ \E u \in Users, dir \in {"gifter", "giftee", "santa"}, long \in BOOLEAN :
            send_anonymous_message(u, dir, long) /\ UNCHANGED rvars
    \/ \E r \in Users : AssignPick(r) /\ UNCHANGED rvars
    \/ AssignRestart /\ UNCHANGED rvars
    \/ AssignReturn /\ UNCHANGED rvars

Spec == Init /\ [][Next]_vars

\* The bot after a first event that was cancelled while the start handler of
\* its creator (user 1, with participant 2) waits for the answer to the
\* confirmation: both tables are empty, the handler still holds the list it read
\* and the pairings it was returned.  events counts the creates from here on.
InitSecondEvent ==
    /\ participants = NoParticipants
    /\ pairings = <<>>
    /\ txAborted = FALSE
    /\ asg = IdleAsg
    /\ st = [u \in Users |->
               IF u = 1
               THEN [pc |-> "wait",
                     plist |-> <<[user_id |-> 1, wishlist |-> 1],
                                 [user_id |-> 2, wishlist |-> 1]>>,
                     pairings |-> <<[giver |-> 1, receiver |-> 2,
                                     receiver_wishlist |-> 1, receiver_address |-> 1],
                                    [giver |-> 2, receiver |-> 1,
                                     receiver_wishlist |-> 1, receiver_address |-> 1]>>,
                     ni |-> 0]
               ELSE NoHandler]
    /\ accepted = FALSE
    /\ events = 0
    /\ out = Outcome("cancel", 1, "cancelled")
    /\ RateInit

SpecSecondEvent == InitSecondEvent /\ [][Next]_vars

----------------------------------------------------------------------------
\* SecretSantaCog: the rate limiter (_check_rate_limit, cog_before_invoke).

\* current_time - t < self.rate_limit_window
InWindowOrAtEdge(t) == now - t <= rl.window
InWindow(t) == now - t < rl.window

\* The cleaned history of u: the timestamps still inside the window.
Retained(u) == SelectSeq(history[u], InWindow)

\* _check_rate_limit(u) returns is_limited = True.
is_limited(u) == rl.enabled /\ Len(Retained(u)) >= rl.commands

\* user_command_history after _check_rate_limit(u): nothing is touched while
\* the limiter is off; otherwise the history of u is cleaned, and the current
\* time is recorded unless the call is limited.
\* (check_rate_limit_over: the check if it compared with > instead of >=.)
check_rate_limit_over(u) ==
    IF ~rl.enabled THEN history
    ELSE IF Len(Retained(u)) > rl.commands
    THEN [history EXCEPT ![u] = Retained(u)]
    ELSE [history EXCEPT ![u] = Append(Retained(u), now)]
check_rate_limit(u) ==
    IF ~rl.enabled THEN history
    ELSE IF Len(Retained(u)) >= rl.commands
    THEN [history EXCEPT ![u] = Retained(u)]
    ELSE [history EXCEPT ![u] = Append(Retained(u), now)]

\* if is_admin: return
BypassNever(admin) == FALSE
Bypass(admin) == admin

\* if is_limited: ...; raise commands.CommandError("Rate limited")
RaisesNever(limited) == FALSE
Raises(limited) == limited

\* cog_before_invoke raises for the command of u: the command is not invoked.
Stopped(u, admin) == ~Bypass(admin) /\ Raises(is_limited(u))

\* cog_before_invoke followed by the command it lets through: body is the
\* command's handler up to its first await, together with what it does to rl.
Invoke(u, admin, body) ==
    /\ now' = now
    /\ history' = IF Bypass(admin) THEN history ELSE check_rate_limit(u)
    /\ IF Stopped(u, admin)
       THEN /\ out' = Outcome("command", u, "rate_limited")
            /\ UNCHANGED <<participants, pairings, txAborted, asg, st, accepted,
                           events, rl>>
       ELSE body

\* cog_before_invoke alone, for any command: the check and its answer.
CheckOnly(u, admin) ==
    Invoke(u, admin,
           /\ out' = Outcome("command", u, "admitted")
           /\ UNCHANGED <<participants, pairings, txAborted, asg, st, accepted,
                          events, rl>>)

\* A second passes.
Tick ==
    /\ now < MaxTime
    /\ now' = now + 1
    /\ out' = Outcome("tick", 0, "tick")
    /\ UNCHANGED <<participants, pairings, txAborted, asg, st, accepted, events,
                   history, rl>>

\* The configurations the ratelimit command can have left: commands >= 1,
\* window >= 5.
LimiterConfigs ==
    [enabled : BOOLEAN, commands : 1..MaxCommands, window : {5, 6}]

\* Who sends commands in SpecLimiter: two members without the permission and
\* an administrator, in a guild channel.
LimiterCallers == {1, 2, NumUsers}

InitLimiter ==
    /\ participants = NoParticipants
    /\ pairings = <<>>
    /\ txAborted = FALSE
    /\ asg = IdleAsg
    /\ st = [u \in Users |-> NoHandler]
    /\ accepted = FALSE
    /\ events = 0
    /\ out = Outcome("init", 0, "ready")
    /\ now = 0
    /\ history = [u \in Users |-> <<>>]
    /\ rl \in LimiterConfigs

NextLimiter ==
    \/ Tick
    \/ \E u \in LimiterCallers : CheckOnly(u, u \in Elevated)

\* The limiter alone, under every configuration, as time passes.
SpecLimiter == InitLimiter /\ [][NextLimiter]_vars

\* Who sends commands in SpecRate, and from where: the members without the
\* permission and the administrators, all in a guild channel.
RateFacts(u) == {u \in Elevated}

\* The cog after an administrator's "ratelimit commands MaxCommands", with no
\* event yet.
InitRate ==
    /\ participants = NoParticipants
    /\ pairings = <<>>
    /\ txAborted = FALSE
    /\ asg = IdleAsg
    /\ st = [u \in Users |-> NoHandler]
    /\ accepted = FALSE
    /\ events = 0
    /\ out = Outcome("ratelimit", NumUsers, "commands_set")
    /\ now = 0
    /\ history = [u \in Users |-> <<>>]
    /\ rl = [enabled |-> TRUE, commands |-> MaxCommands, window |-> RATE_LIMIT_WINDOW]

\* From there, before anybody has set a wishlist or an address (no start gets as
\* far as assign_partners) and with the clock standing still (every command
\* falls into the same window): cog_before_invoke and the handler of each
\* command.
NextRate ==
    \/ \E u \in Users : \E admin \in RateFacts(u) :
         Invoke(u, admin, create_secret_santa(u) /\ UNCHANGED rl)
    \/ \E u \in Users : \E admin \in RateFacts(u) :
         Invoke(u, admin, join_secret_santa(u) /\ UNCHANGED rl)
    \/ \E u \in Users : \E admin \in RateFacts(u) :
         Invoke(u, admin, start_secret_santa(u, admin) /\ UNCHANGED rl)
    \/ \E u \in Users : \E admin \in RateFacts(u) :
         Invoke(u, admin, cancel_secret_santa(u, admin) /\ UNCHANGED rl)
    \/ \E u \in Users : \E admin \in RateFacts(u), target \in Users,
          how \in {"id", "name"} :
         Invoke(u, admin, remove_participant(u, admin, target, how) /\ UNCHANGED rl)
    \/ \E u \in Users : \E admin \in RateFacts(u) :
         Invoke(u, admin, remind_missing_info(u, admin) /\ UNCHANGED rl)
    \/ \E u \in Users : \E admin \in RateFacts(u), long \in BOOLEAN :
         Invoke(u, admin, broadcast_message(u, admin, long) /\ UNCHANGED rl)
    \/ \E u \in Users : \E admin \in RateFacts(u),
          action \in {"on", "off", "commands", "window", "status", "help"} :
         \E value \in RateValues(action) :
         Invoke(u, admin, set_rate_limit(u, admin, action, value))
    \/ \E u \in Users : \E admin \in RateFacts(u), dir \in {"gifter", "giftee"} :
         Invoke(u, admin, send_anonymous_message(u, dir, FALSE)
                            /\ UNCHANGED rl)

SpecRate == InitRate /\ [][NextRate]_vars

----------------------------------------------------------------------------
\* The text of a relayed message (SpecRelay).

\* The characters of message texts, and the texts of 1..MaxMsgLen characters.
Chars == {"a", "b"}
Messages == UNION {[1..n -> Chars] : n \in 1..MaxMsgLen}
\* ctx.author of a message command: id and name.
Senders == [id : Users, name : {"ann", "bob"}]

\* _format_message_notification(message, is_from_gifter): prefix, blank line,
\* the message, blank line, the hint how to reply.
format_message_notification(message, is_from_gifter) ==
    <<IF is_from_gifter THEN "Your Secret Santa sent you a message:"
      ELSE "Your giftee sent you a message:", "\n", "\n">>
    \o message
    \o <<"\n", "\n", "To reply, use: ",
         IF is_from_gifter THEN "s!message gifter" ELSE "s!message giftee",
         " <your message>">>

\* The text passed to the counterpart's send, for a message of sender in
\* direction dir.
DeliveredTextSigned(sender, dir, message) ==
    <<sender.name>> \o format_message_notification(message, dir = "giftee")
DeliveredText(sender, dir, message) ==
    format_message_notification(message, dir = "giftee")

\* The line _log_message_sent writes to the log file.
LogLine(sender, dir, ok) ==
    <<IF ok THEN "ok" ELSE "failed",
      IF dir = "gifter" THEN "TO_GIFTER" ELSE "TO_GIFTEE",
      IF dir = "gifter" THEN "Giftee" ELSE "Gifter", sender.name>>

\* Everything but out at rest.
AtRest ==
    /\ participants = NoParticipants
    /\ pairings = <<>>
    /\ txAborted = FALSE
    /\ asg = IdleAsg
    /\ st = [u \in Users |-> NoHandler]
    /\ accepted = FALSE
    /\ events = 0
    /\ RateInit

\* A message command of a sender who has a counterpart in the direction asked
\* for, at the point where the counterpart has been resolved.
InitRelay ==
    /\ AtRest
    /\ out \in [cmd : {"message"}, sender : Senders, dir : {"gifter", "giftee"},
                message : Messages, dm : {<<>>}, log : {<<>>}]

\* _send_dm_with_log: the DM is delivered (ok) or refused, and logged.
Relay(ok) ==
    /\ out.cmd = "message"
    /\ out' = [out EXCEPT !.cmd = IF ok THEN "sent" ELSE "refused",
                          !.dm = IF ok THEN DeliveredText(out.sender, out.dir, out.message)
                                 ELSE <<>>,
                          !.log = LogLine(out.sender, out.dir, ok)]
    /\ UNCHANGED <<participants, pairings, txAborted, asg, st, accepted, events>>
    /\ UNCHANGED rvars

NextRelay == \E ok \in BOOLEAN : Relay(ok)

SpecRelay == InitRelay /\ [][NextRelay]_vars

----------------------------------------------------------------------------
\* Long texts sent in numbered parts (SpecChunk).

\* [text[i:i+1900] for i in range(0, len(text), 1900)]
CHUNK == 1900

\* A text of n characters, each character written as its position.
TextOf(n) == [k \in 1..n |-> k]

\* len(str(i))
Digits(i) == IF i < 10 THEN 1 ELSE IF i < 100 THEN 2 ELSE 3

\* The length of the label put before part i of n:
\* "Page i/n:\n", "Wishlist (Part i/n):\n", "Address (Part i/n):\n".
LabelLen(kind, i, n) ==
    Digits(i) + Digits(n)
    + (IF kind = "list" THEN 8 ELSE IF kind = "wishlist" THEN 19 ELSE 18)

\* The text that is sent: the listing, or the header "**Wishlist:**\n" /
\* "**Delivery Address:**\n" followed by the stored text ('No wishlist set' /
\* 'No address set' when there is none).
Original(kind, n) ==
    IF kind = "list" THEN TextOf(n)
    ELSE IF kind = "wishlist" THEN TextOf(14 + (IF n = 0 THEN 15 ELSE n))
    ELSE TextOf(22 + (IF n = 0 THEN 14 ELSE n))

\* The messages sent for text: the text itself, or its slices of CHUNK
\* characters, each after its label.
Parts(kind, text) ==
    IF Len(text) > CHUNK
    THEN LET n == (Len(text) + CHUNK - 1) \div CHUNK
         IN  [i \in 1..n |->
                [part |-> i, of |-> n, label |-> LabelLen(kind, i, n),
                 body |-> SubSeq(text, (i - 1) * CHUNK + 1,
                                 IF i * CHUNK < Len(text) THEN i * CHUNK
                                 ELSE Len(text))]]
    ELSE <<[part |-> 1, of |-> 1, label |-> 0, body |-> text]>>

\* The lengths of the listings: one participant with a name of one character
\* (the header of 28 characters and "1. x\n"), and the lengths around a whole
\* number of pages.
ListLengths ==
    {33} \cup {m * CHUNK + d : m \in 1..MaxPages, d \in (-MaxSlack)..MaxSlack}
\* The lengths of stored wishlists and addresses (0: none).
StoredLengths == {0, 1, MaxTextLen}

\* participants / _send_match_notification about to send a text.
InitChunk ==
    /\ AtRest
    /\ \E kind \in {"list", "wishlist", "address"} :
       \E n \in IF kind = "list" THEN ListLengths ELSE StoredLengths :
          out = [cmd |-> kind, text |-> Original(kind, n), sent |-> <<>>]

\* The next message is sent.
SendPart ==
    /\ Len(out.sent) < Len(Parts(out.cmd, out.text))
    /\ out' = [out EXCEPT !.sent = Append(@, Parts(out.cmd, out.text)[Len(@) + 1])]
    /\ UNCHANGED <<participants, pairings, txAborted, asg, st, accepted, events>>
    /\ UNCHANGED rvars

SpecChunk == InitChunk /\ [][SendPart]_vars

----------------------------------------------------------------------------
\* Claims about assign_partners (SpecAssign, FairAssign).

\* The user ids of a participant list.
ListIds(plist) == {plist[k].user_id : k \in 1..Len(plist)}

\* rows (records with giver and receiver) pair every id of ids once as giver and
\* once as receiver, never with itself, and hold nothing else.
IsDerangement(rows, ids) ==
    /\ Len(rows) = Cardinality(ids)
    /\ \A id \in ids :
         /\ Cardinality({k \in 1..Len(rows) : rows[k].giver = id}) = 1
         /\ Cardinality({k \in 1..Len(rows) : rows[k].receiver = id}) = 1
    /\ \A k \in 1..Len(rows) : rows[k].giver # rows[k].receiver

PairSet(rows) == {<<rows[k].giver, rows[k].receiver>> : k \in 1..Len(rows)}

JustReturned(u) ==
    /\ out.res \in {"returned", "returned_after_restart"}
    /\ out.user = u
    /\ st[u].pc = "present"

\* C1: whenever assign_partners returns for a list of N >= 2 distinct ids, the
\* returned list and the stored pairings are the same N pairs, every id is giver
\* once and receiver once and nobody is paired with themselves, also after
\* restarts (no row of an abandoned attempt is left in the table).
C1_ReturnIsStoredDerangement ==
    \A u \in Users :
      JustReturned(u) =>
        /\ IsDerangement(st[u].pairings, ListIds(st[u].plist))
        /\ IsDerangement(pairings, ListIds(st[u].plist))
        /\ Len(pairings) = Len(st[u].plist)
        /\ Len(st[u].pairings) = Len(st[u].plist)
        /\ PairSet(st[u].pairings) = PairSet(pairings)

\* C1 witness: a call over three or more participants returned after a restart.
C1_Witness ==
    \E u \in Users :
      JustReturned(u) /\ out.res = "returned_after_restart" /\ Len(st[u].plist) >= 3

C3_TwoParticipantsSwap ==
    /\ (asg.pc = "loop" /\ Len(asg.plist) = 2) =>
          /\ ~asg.restarted
          /\ asg.i <= 2 => ValidReceivers(asg.plist[asg.i], asg.receivers) # {}
    /\ \A u \in Users :
         (JustReturned(u) /\ Len(st[u].plist) = 2) =>
           LET a == st[u].plist[1].user_id
               b == st[u].plist[2].user_id
           IN  /\ out.res = "returned"
               /\ PairSet(st[u].pairings) = {<<a, b>>, <<b, a>>}
               /\ pairings = <<[giver |-> a, receiver |-> b],
                               [giver |-> b, receiver |-> a]>>

\* C3 witness: a call over two participants returned.
C3_Witness ==
    \E u \in Users : JustReturned(u) /\ Len(st[u].plist) = 2

\* C32: in a pass of assign_partners over N >= 2 distinct participants,
\* valid_receivers is empty only for the last giver, and only when the one
\* receiver left is that giver: for every earlier giver it is non-empty, and no
\* restart comes before the last step.
C32_EmptyPoolOnlyAtLastStep ==
    (asg.pc = "loop" /\ asg.i <= Len(asg.plist)) =>
        /\ Len(asg.receivers) = Len(asg.plist) - asg.i + 1
        /\ ValidReceivers(asg.plist[asg.i], asg.receivers) = {} =>
             /\ asg.i = Len(asg.plist)
             /\ Len(asg.receivers) = 1
             /\ asg.receivers[1].user_id = asg.plist[asg.i].user_id

\* The last giver of a list of three or more is the one receiver left.
C32_Witness ==
    /\ asg.pc = "loop"
    /\ Len(asg.plist) >= 3
    /\ asg.i = Len(asg.plist)
    /\ ValidReceivers(asg.plist[asg.i], asg.receivers) = {}

----------------------------------------------------------------------------
\* Claims about the event lifecycle (Spec).

\* The lifecycle states, read off the store and the start handlers.
Idle == Present = {}
Forming == Present # {} /\ ~Confirming /\ ~accepted

\* A start handler is suspended in wait_for.
Waiting == \E u \in Users : st[u].pc = "wait"

Complete(u) == participants[u].wishlist # NULL /\ participants[u].address # NULL
Incomplete == {u \in Present : ~Complete(u)}

\* What a report of exactly the incomplete participants holds.
IncompleteReport ==
    {[user_id |-> u,
      missing_wishlist |-> participants[u].wishlist = NULL,
      missing_address |-> participants[u].address = NULL] : u \in Incomplete}

\* The caller u is the creator or uses the administrator permission.
Authorized(u, admin) == admin \/ (u \in Present /\ participants[u].is_creator)

\* C4: in every state between two handler steps (assign_partners not in the
\* middle of its transaction), stored pairings, if any, are a derangement over
\* the current participants: as many rows as participants, every participant
\* once giver and once receiver, no self-pair.
C4_StoredPairingsDerangeCurrent ==
    (asg.pc = "idle" /\ pairings # <<>>) =>
        /\ IsDerangement(pairings, Present)
        /\ {pairings[k].giver : k \in 1..Len(pairings)} = Present
        /\ {pairings[k].receiver : k \in 1..Len(pairings)} = Present

\* C5: when a start has just been accepted (the yes has arrived, the
\* notifications are about to go out), every participant in the store has a
\* wishlist and an address.
C5_AcceptedAllComplete ==
    (out.cmd = "respond" /\ out.res = "yes") => Incomplete = {}

\* C6: a start by an authorized caller while some participant lacks a wishlist
\* or an address fails, the participants it reports are exactly the incomplete
\* ones, each with their missing fields, assign_partners is not called and the
\* pairings stay as they were.
C6_StartIncompleteReportsExactly ==
    [][\A u \in Users : \A admin \in AdminFacts(u) :
         (start_secret_santa(u, admin) /\ Authorized(u, admin) /\ Incomplete # {}) =>
            /\ out'.cmd = "start"
            /\ out'.res \in {"missing_info", "dm_refused"}
            /\ out'.report = IncompleteReport
            /\ asg' = asg /\ st' = st
            /\ pairings' = pairings]_vars

\* C6, read for the starts that get as far as the validation (a working
\* connection, two or more participants): the same statement.
C6_TwoOrMoreReportsExactly ==
    [][\A u \in Users : \A admin \in AdminFacts(u) :
         (/\ start_secret_santa(u, admin)
          /\ Authorized(u, admin)
          /\ Incomplete # {}
          /\ ~txAborted
          /\ Cardinality(Present) >= 2) =>
            /\ out'.cmd = "start"
            /\ out'.report = IncompleteReport
            /\ asg' = asg /\ st' = st
            /\ pairings' = pairings]_vars

\* C7: a create with no participant in the store leaves exactly the caller, as
\* creator, without wishlist and address, and no pairings; a create with a
\* participant in the store is rejected and changes neither table (so of two
\* creates the second is rejected).
C7_CreateOnlyInIdle ==
    [][\A u \in Users :
         create_secret_santa(u) =>
            IF Idle
            THEN /\ out'.res = "created"
                 /\ participants' = [x \in {u} |-> NewRow(TRUE)]
                 /\ pairings' = <<>>
            ELSE /\ out'.res = "already_active"
                 /\ participants' = participants
                 /\ pairings' = pairings]_vars

\* C8: a join outside Forming (in Idle, during a confirmation, after an accepted
\* start) is rejected and changes neither table.
C8_JoinOnlyInForming ==
    [][\A u \in Users :
         (join_secret_santa(u) /\ ~Forming) =>
            /\ out'.res = "no_event"
            /\ participants' = participants
            /\ pairings' = pairings]_vars

\* C9: while a start handler waits for the answer to its confirmation, a join,
\* setwishlist, setaddress, remove, cancel, create or another start changes
\* neither table, and at the accept the participants are those the accepted
\* pairings were computed over.
C9_ConfirmingRejectsMutations ==
    [][/\ (Waiting /\ out'.cmd \in {"join", "setwishlist", "setaddress", "remove",
                                    "cancel", "create", "start"}) =>
             (participants' = participants /\ pairings' = pairings)
       /\ (Waiting /\ out'.cmd = "respond" /\ out'.res = "yes") =>
             Present' = ListIds(st'[out'.user].plist)]_vars

\* C10: when the wait for the answer has timed out, the start handler has
\* ended, no confirmation is pending, the event is in Forming and no pairings
\* are stored.
C10_TimeoutAborts ==
    (out.cmd = "timeout") =>
        /\ st[out.user] = NoHandler
        /\ ~Confirming
        /\ Present # {} => Forming
        /\ pairings = <<>>

\* C11: at the accept the list the fan-out goes through is the stored pairings,
\* and every match notification it sends names, to a giver of a stored pairing,
\* the receiver stored for that giver, with that receiver's current wishlist
\* and address; nothing is sent by a handler that has not been answered yes.
C11_NotificationsFollowStore ==
    [][\A u \in Users :
         /\ (out'.cmd = "respond" /\ out'.user = u /\ out'.res = "yes") =>
               PairSet(st'[u].pairings) = PairSet(pairings')
         /\ (st[u].pc = "notify" /\ out'.cmd = "notify" /\ out'.user = u
                /\ out'.res = "sent") =>
               LET n == st[u].pairings[st[u].ni]
               IN  /\ \E k \in 1..Len(pairings) :
                        /\ pairings[k].giver = n.giver
                        /\ pairings[k].receiver = n.receiver
                   /\ n.receiver \in Present
                   /\ n.receiver_wishlist = participants[n.receiver].wishlist
                   /\ n.receiver_address = participants[n.receiver].address
         /\ (out'.cmd = "notify" /\ out'.user = u) => st[u].pc = "notify"]_vars

\* C12: a cancel by the creator or an administrator while a participant exists
\* leaves no participant and no pairing, and is_event_active() false; a cancel
\* with no participant is rejected and changes neither table.
C12_CancelClearsAll ==
    [][\A u \in Users : \A admin \in AdminFacts(u) :
         cancel_secret_santa(u, admin) =>
            IF Idle
            THEN /\ out'.res = "no_event"
                 /\ participants' = participants
                 /\ pairings' = pairings
            ELSE Authorized(u, admin) =>
                    /\ participants' = NoParticipants
                    /\ pairings' = <<>>
                    /\ ~is_event_active']_vars

\* C13: a remove by an authorized caller whose target is the participant with
\* is_creator set fails and changes neither table, whether the target is given
\* by mention or id (the refusal "Cannot remove the event creator") or by name
\* (the lookup by name raises), or the connection is in a failed transaction.
C13_RemoveCreatorFails ==
    [][\A u \in {out'.user} \cap Users : \A admin \in AdminFacts(u) :
       \A target \in Users : \A how \in {"id", "name"} :
         (/\ out'.cmd = "remove"
          /\ remove_participant(u, admin, target, how)
          /\ Authorized(u, admin)
          /\ target \in Present
          /\ participants[target].is_creator) =>
            /\ out'.cmd = "remove"
            /\ out'.res = (IF txAborted THEN "db_error"
                           ELSE IF how = "id" THEN "is_creator"
                           ELSE "attribute_error")
            /\ participants' = participants
            /\ pairings' = pairings]_vars

\* C13 witness: the creator refusal was given while another participant exists.
C13_Witness ==
    out.cmd = "remove" /\ out.res = "is_creator" /\ Cardinality(Present) >= 2

\* C14: a remove by an authorized caller of a participant who is not the creator
\* succeeds: afterwards the target is no participant and is in no stored pairing.
C14_RemoveNonCreatorSucceeds ==
    [][\A u \in Users : \A admin \in AdminFacts(u) :
       \A target \in Users : \A how \in {"id", "name"} :
         (/\ remove_participant(u, admin, target, how)
          /\ Authorized(u, admin)
          /\ target \in Present
          /\ ~participants[target].is_creator) =>
            /\ out'.res = "removed"
            /\ target \notin Present'
            /\ \A k \in 1..Len(pairings') :
                 pairings'[k].giver # target /\ pairings'[k].receiver # target]_vars

----------------------------------------------------------------------------
\* Claims about the rate limiter (SpecLimiter, SpecRate).

\* The number of recorded (admitted) checks of u within the last window.
RecentlyAdmitted(u) ==
    Cardinality({k \in 1..Len(history[u]) : now - history[u][k] < rl.window})

\* The earliest timestamp in the history of u.
Earliest(u) ==
    CHOOSE t \in Range(history[u]) : \A x \in Range(history[u]) : t <= x

\* The step is a check of cog_before_invoke for a command of u.
Checked(u) == out'.user = u /\ out'.cmd # "tick"

C17_AdminBypassesLimiter ==
    [][\A u \in Elevated :
         Checked(u) => (out'.res = "admitted" /\ history' = history)]_vars

\* C17 witness: an administrator is admitted, with nothing recorded for them,
\* while the limiter is on and another caller has used up a window of one
\* command.
C17_Witness ==
    \E u \in Elevated :
      /\ out = Outcome("command", u, "admitted")
      /\ history[u] = <<>>
      /\ rl.enabled /\ rl.commands = 1
      /\ \E v \in Users \ Elevated : is_limited(v)

----------------------------------------------------------------------------
\* Claims about the authorization check and its place after the limiter
\* (SpecRate).

Privileged == {"start", "cancel", "remove", "remind", "broadcast", "ratelimit"}

C18_LimiterBeforeHandler ==
    [][\A u \in {out'.user} \cap (Users \ Elevated) :
         is_limited(u) =>
           /\ out'.res = "rate_limited"
           /\ out'.report = {}
           /\ UNCHANGED <<participants, pairings, txAborted, asg, st, accepted,
                          events, rl>>]_vars

\* A command has just been denied by the limiter to a participant who is not
\* the creator of the event under way.
C18_Witness ==
    /\ out.res = "rate_limited"
    /\ out.user \in Present
    /\ ~participants[out.user].is_creator
    /\ is_limited(out.user)

----------------------------------------------------------------------------
\* Claims about the message relay (Spec).

\* Some stored pairing has u as receiver (direction gifter) / as giver (giftee).
HasCounterpart(u, dir) ==
    \E k \in 1..Len(pairings) :
        IF dir = "gifter" THEN pairings[k].receiver = u ELSE pairings[k].giver = u

\* C19: a message in direction gifter (giftee) from a sender for whom no stored
\* pairing has the sender as receiver (as giver) is rejected: the sender is told
\* why, nothing is delivered to anyone, and participants and pairings are
\* unchanged.
C19_NoCounterpartRejected ==
    [][\A dir \in {"gifter", "giftee"} :
         out'.cmd = MessageCmd(dir) =>
           \A u \in {out'.user} :
             ~HasCounterpart(u, dir) =>
               /\ out'.res \in {"no_event", "too_long", "no_gifter", "no_giftee"}
               /\ out'.report = {}
               /\ participants' = participants
               /\ pairings' = pairings]_vars

\* A sender outside the stored pairings has just been told that they have no
\* gifter.
C19_Witness ==
    /\ out.cmd = MessageCmd("gifter") /\ out.res = "no_gifter"
    /\ pairings # <<>>
    /\ ~HasCounterpart(out.user, "gifter")

\* C20: every message command whose sender has a stored counterpart in the
\* requested direction ends with one outcome reported to the sender, success or
\* failure (never without a word), a delivery the transport refuses being a
\* reported failure, and leaves participants and pairings unchanged.
C20_CounterpartOneOutcome ==
    [][\A dir \in {"gifter", "giftee"} :
         out'.cmd = MessageCmd(dir) =>
           \A u \in {out'.user} :
             HasCounterpart(u, dir) =>
               /\ out'.res \in {"sent", "refused", "too_long", "no_event"}
               /\ out'.res = "sent" <=> out'.report # {}
               /\ participants' = participants
               /\ pairings' = pairings]_vars

\* C33: with fewer than 2 participants a start is rejected (told that two are
\* required, or refused for lack of authorization) before assign_partners is
\* called: participants and the stored pairings are as before, no handler
\* begins a confirmation and assign_partners does not run.
C33_StartNeedsTwo ==
    [][(out'.cmd = "start" /\ Cardinality(Present) < 2) =>
         /\ out'.res \in {"too_few", "denied", "db_error"}
         /\ participants' = participants
         /\ pairings' = pairings
         /\ st' = st
         /\ asg' = asg]_vars

\* The creator, alone in the event, has just been told that two participants
\* are required.
C33_Witness ==
    /\ out.cmd = "start" /\ out.res = "too_few"
    /\ Cardinality(Present) = 1
    /\ out.user \in Present

----------------------------------------------------------------------------
\* Claims about the participants table (Spec).

Creators == {u \in Present : participants[u].is_creator}

\* C24: in every state with an event (some participant), exactly one
\* participant has is_creator, whatever creates, joins, setwishlists,
\* setaddresses, starts and removes came before: in particular a join of the
\* creator leaves the creator in place.
C24_ExactlyOneCreator ==
    Present # {} => Cardinality(Creators) = 1

\* C25: user ids are unique among the participants read from the table after
\* every create and join (the commands that insert), and join is idempotent: a
\* join of a caller who is a participant already leaves the number of
\* participants, the caller's wishlist and address and every other row as they
\* were, and a second join right after it would give the store the first one
\* gave.
C25_JoinIdempotent ==
    [][out'.cmd \in {"create", "join"} =>
         /\ Cardinality(ListIds(Rows(participants'))) = Len(Rows(participants'))
         /\ \A u \in {out'.user} \cap Present :
              out'.cmd = "join" =>
                /\ DOMAIN participants' = Present
                /\ participants'[u].wishlist = participants[u].wishlist
                /\ participants'[u].address = participants[u].address
                /\ \A v \in Present \ {u} : participants'[v] = participants[v]
                /\ out'.res = "joined" =>
                     add_participant(participants', u, FALSE) = participants']_vars

\* A participant with a wishlist and an address has just joined again.
C25_Witness ==
    /\ out.cmd = "join" /\ out.res = "joined"
    /\ out.user \in Present
    /\ participants[out.user].wishlist # NULL
    /\ participants[out.user].address # NULL
    /\ Cardinality(Present) >= 2

\* C26: a setwishlist / setaddress with a text of more than 1000 characters is
\* rejected and leaves the store as it was, so that no stored wishlist or
\* address has more than 1000 characters; with a text of at most 1000
\* characters from a participant, the wishlist (address) of that participant
\* becomes the text and nothing else in the store changes.
C26_TextsSetWithinLimit ==
    [][\A u \in {out'.user} \cap Users :
         /\ out'.cmd \in {"setwishlist", "setaddress"} =>
              /\ pairings' = pairings
              /\ \A v \in DOMAIN participants' :
                   /\ Length(participants'[v].wishlist) <= MaxTextLen
                   /\ Length(participants'[v].address) <= MaxTextLen
         /\ out'.cmd = "setwishlist" =>
              \A text \in Texts \cup {OverLong} :
                set_wishlist(u, text) =>
                  IF Length(text) > MaxTextLen
                  THEN out'.res = "too_long" /\ participants' = participants
                  ELSE u \in Present =>
                         participants' = [participants EXCEPT ![u].wishlist = text]
         /\ out'.cmd = "setaddress" =>
              \A text \in Texts \cup {OverLong} :
                set_address(u, text) =>
                  IF Length(text) > MaxTextLen
                  THEN out'.res = "too_long" /\ participants' = participants
                  ELSE u \in Present =>
                         participants' = [participants EXCEPT ![u].address = text]]_vars

----------------------------------------------------------------------------
\* Claims about the confirmation and the stored pairings (Spec).

\* C28: a pending confirmation is decided (yes or no) only by the creator of
\* the event, never by another participant or by an administrator who is not
\* the creator.
C28_OnlyCreatorDecides ==
    [][out'.cmd = "respond" => out'.user \in Creators]_vars

\* C29: pairings are stored only while a start is in its confirmation loop or
\* after an accept and before the next cancel; a start handler that has ended
\* without an accept leaves none behind.
C29_PairingsOnlyConfirmingOrActive ==
    pairings # <<>> => (Confirming \/ accepted)

\* C30: a message sent while a start still waits for the answer to its
\* proposal is not delivered to any counterpart.
C30_NoRelayBeforeAccept ==
    ~(/\ out.cmd \in {MessageCmd("gifter"), MessageCmd("giftee")}
      /\ out.res = "sent"
      /\ Waiting)

----------------------------------------------------------------------------
\* Claims about the fan-out of broadcast and remind (SpecRate).

\* C22: a broadcast that gets as far as its loop attempts every participant,
\* whatever earlier participants refused, and the counts it reports add up:
\* successes + failures = number of participants, the successes being the
\* participants the message reached.
C22_BroadcastCountsAddUp ==
    [][(out'.cmd = "broadcast" /\ out'.res = "broadcast") =>
         /\ out'.sent = Cardinality(out'.report)
         /\ out'.sent + out'.failed = Cardinality(Present)]_vars

\* C23: a reminder a participant refuses does not end remind: the command goes
\* on to the remaining participants with missing information and ends by
\* reporting a count.
C23_RemindSurvivesRefusal ==
    [][out'.cmd = "remind" => out'.res \in {"denied", "all_complete", "reminded"}]_vars

----------------------------------------------------------------------------
\* Claims about the texts sent (SpecRelay, SpecChunk).

RECURSIVE Concat(_)
\* The bodies of the messages msgs one after the other.
Concat(msgs) ==
    IF msgs = <<>> THEN <<>> ELSE Head(msgs).body \o Concat(Tail(msgs))

\* C27: a text of more than 1900 characters is sent as n parts numbered 1/n,
\* 2/n, ..., n/n in this order, the bodies of the parts put together give the
\* text, and no message sent, its label included, has more than 1900
\* characters.
C27_PartsOrderedCompleteWithinLimit ==
    /\ \A k \in 1..Len(out.sent) :
         /\ out.sent[k].part = k
         /\ out.sent[k].of = Len(Parts(out.cmd, out.text))
         /\ out.sent[k].label + Len(out.sent[k].body) <= CHUNK
    /\ Len(out.sent) = Len(Parts(out.cmd, out.text)) => Concat(out.sent) = out.text

----------------------------------------------------------------------------
\* Claims about the confirmation loop and its interleavings (Spec).

\* The handler of u has been answered no and takes its next step.
AfterReject(u) ==
    /\ out.cmd = "respond" /\ out.res = "no" /\ out.user = u
    /\ out'.user = u

\* C31: after a no, assign_partners is called again on the list of the
\* rejected proposal, the stored pairings are emptied before the new ones are
\* written, the call returns a new derangement of that list, which is the
\* stored set, and the handler presents it before it notifies anybody.
C31_RejectRegenerates ==
    [][\A u \in {out'.user} \cap Users :
         /\ AfterReject(u) =>
              /\ out'.cmd = "regen" /\ out'.res = "assigning"
              /\ asg'.plist = st[u].plist
              /\ pairings' = <<>>
         /\ (out'.cmd = "assign" /\ st[u].plist # <<>>) =>
              /\ out'.res # "db_error"
              /\ out'.res \in {"returned", "returned_after_restart"} =>
                   /\ IsDerangement(pairings', ListIds(st[u].plist))
                   /\ PairSet(pairings') = PairSet(st'[u].pairings)
                   /\ st'[u].pc = "present"]_vars

\* C37: whatever handlers ran in between, the pairings a start handler has
\* presented and is answered yes for, the participants being those it had
\* read, are the pairings stored at that moment,
\* the ones the message relay uses: no giver is about to be notified of a
\* receiver other than the one the store holds for them.
C37_AcceptedSetIsStoredSet ==
    [][\A u \in {out'.user} \cap Users :
         (/\ out'.cmd = "respond" /\ out'.res = "yes"
          /\ ListIds(st[u].plist) = Present) =>
            \A k \in 1..Len(st[u].pairings) :
               get_giftee_for_user(st[u].pairings[k].giver)
                   = st[u].pairings[k].receiver]_vars

\* An event has been created and cancelled, and none created since.
Cancelled == Idle /\ events >= 1

\* C38: from a successful cancel to the next create no step stores a pairing
\* and no step sends a match notification, whatever a start handler that was
\* waiting at the cancel is answered.
C38_NothingAfterCancel ==
    [][(Cancelled /\ Cancelled') =>
          /\ pairings' = <<>>
          /\ ~(out'.cmd = "notify" /\ out'.res = "sent")]_vars

\* ---------------------------------------------------------------------------
\* Claims about the frame of setwishlist and setaddress (Spec)
\* ---------------------------------------------------------------------------

\* The participants that carry the creator flag in tbl.
FlaggedCreators(tbl) == {x \in DOMAIN tbl : tbl[x].is_creator}

\* C39: a setwishlist or setaddress step leaves the set of participant ids,
\* every is_creator flag and the pairings as they were, and from a caller who
\* is no participant it leaves both tables as they were: no event is opened
\* and nobody is enrolled.
C39_SetInfoFrame ==
    [][(out'.cmd \in {"setwishlist", "setaddress"}) =>
          /\ DOMAIN participants' = Present
          /\ FlaggedCreators(participants') = FlaggedCreators(participants)
          /\ pairings' = pairings
          /\ out'.user \notin Present => participants' = participants]_vars

\* C39 witness: setaddress was answered "set" for a caller who is no
\* participant while no event exists.
C39_Witness ==
    out.cmd = "setaddress" /\ out.res = "set" /\ out.user \notin Present /\ Idle

\* ---------------------------------------------------------------------------
\* Claims about the limiter's configuration (SpecRate)
\* ---------------------------------------------------------------------------

\* The least value ratelimit <action> is to accept.
Minimum(action) == IF action = "commands" THEN 1 ELSE 5

\* C34: rate_limit_commands is always at least 1 and rate_limit_window at
\* least 5; a ratelimit commands below 1, a ratelimit window below 5 and either
\* without a value are refused; a refused ratelimit leaves the three settings
\* as they were; on, off, commands and window each change the one setting they
\* name and no other; no other command changes a setting.
C34_ConfigStaysValid ==
    /\ [](rl.commands >= 1 /\ rl.window >= 5)
    /\ [][\A u \in {out'.user} \cap Users :
            /\ out'.cmd # "ratelimit" => rl' = rl
            /\ out'.cmd = "ratelimit" =>
                 /\ out'.res \in {"bad_value", "denied", "db_error", "status",
                                  "invalid"} => rl' = rl
                 /\ out'.res = "on" => rl' = [rl EXCEPT !.enabled = TRUE]
                 /\ out'.res = "off" => rl' = [rl EXCEPT !.enabled = FALSE]
                 /\ out'.res = "commands_set" =>
                       rl'.enabled = rl.enabled /\ rl'.window = rl.window
                 /\ out'.res = "window_set" =>
                       rl'.enabled = rl.enabled /\ rl'.commands = rl.commands
                 /\ \A action \in {"commands", "window"} :
                    \A value \in RateValues(action) :
                      (/\ value < Minimum(action)
                       /\ set_rate_limit(u, u \in Elevated, action, value)) =>
                          /\ out'.res \in {"bad_value", "denied", "db_error"}
                          /\ rl' = rl]_vars

\* C34 witness: after rate_limit_commands was set to 1 and the limiter switched
\* off, a ratelimit with a value below the minimum has just been refused.
C34_Witness ==
    /\ out.cmd = "ratelimit" /\ out.res = "bad_value"
    /\ rl.commands = 1 /\ ~rl.enabled

\* ---------------------------------------------------------------------------
\* Claims about the sliding window (SpecLimiter)
\* ---------------------------------------------------------------------------

\* The number of recorded (admitted) checks of u from time a up to, and not
\* including, a + rl.window.
AdmittedIn(u, a) ==
    Cardinality({k \in 1..Len(history[u]) :
                    a <= history[u][k] /\ history[u][k] < a + rl.window})

Inverse(dir) == IF dir = "giftee" THEN "gifter" ELSE "giftee"

\* The command named by the last line of a relayed text.
HintOf(text) == text[Len(text) - 1]

\* Whom the message command looks up for r in direction dir.
Counterpart(r, dir) ==
    IF dir = "gifter" THEN get_gifter_for_user(r) ELSE get_giftee_for_user(r)

\* The users in the stored pairings.
Paired == {pairings[k].giver : k \in 1..Len(pairings)}

\* C35: the text relayed for a message in direction giftee ends with the hint
\* s!message gifter and the text for direction gifter with s!message giftee;
\* and when the stored pairings are a derangement and a message of S in
\* direction dir is delivered, it is delivered to the counterpart R looked up
\* for S, and the counterpart looked up for R in the inverse direction is S.
C35_ReplyClosesLoop ==
    /\ [](\A sender \in Senders : \A dir \in {"gifter", "giftee"} :
          \A message \in Messages :
            HintOf(DeliveredText(sender, dir, message)) = "s!message " \o Inverse(dir))
    /\ [][\A dir \in {"gifter", "giftee"} :
            (/\ out'.cmd = MessageCmd(dir) /\ out'.res = "sent"
             /\ IsDerangement(pairings, Paired)) =>
               \A S \in {out'.user} : \A R \in Users :
                 /\ out'.report = {[user_id |-> Counterpart(S, dir)]}
                 /\ [user_id |-> R] \in out'.report =>
                       Counterpart(R, Inverse(dir)) = S]_vars

\* C35 witness: with three users paired in a cycle, a message to the sender's
\* giftee has just been delivered.
C35_Witness ==
    /\ out.cmd = MessageCmd("giftee") /\ out.res = "sent"
    /\ Len(pairings) = 3 /\ IsDerangement(pairings, Paired)
    /\ out.report = {[user_id |-> get_giftee_for_user(out.user)]}
====
